---- MODULE Spec2Model ----
(***************************************************************************)
(* A model of src/script.py: a Flask application that logs a user in with  *)
(* Google (OAuth2 / OpenID Connect), keeps the token and the profile in    *)
(* the session, and lists, creates and deletes events of the user's        *)
(* primary calendar ("tasks").                                             *)
(*                                                                         *)
(* One action per route handler.  The state is the session, the remote     *)
(* calendar, the clock, and a record of the last request: the request, its *)
(* response and the remote calls the handler issued while serving it.      *)
(***************************************************************************)
EXTENDS Integers, Sequences, TLC

VARIABLES
    session,    \* the Flask session: the entries 'user_token' and 'user'
    debug,      \* whether the app runs with debug=True (exceptions propagate)
    now,        \* the clock, in abstract ticks
    calendar,   \* the remote primary calendar: a sequence of events
    req,        \* the last request served
    resp,       \* the response to it
    calls,      \* the remote calls issued while serving it, in order
    log,        \* the due date it logged: as received, and as converted
    loggedOut   \* history: /logout was served and no /callback succeeded since

vars == <<session, debug, now, calendar, req, resp, calls, log, loggedOut>>

\* A key that is not in a dict / a value that is None.
Absent == "absent"

(***************************************************************************)
(* Bounds of the model.                                                    *)
(***************************************************************************)
MaxNow == 2
MaxTTL == 2
MaxEvents == 2

AccessTokens == {"at1"}
RefreshTokens == {Absent, "rt1"}
Profiles == {"alice"}
Titles == {"task"}

(***************************************************************************)
(* Text.  A Python str is modelled as a sequence of one-character strings, *)
(* so that len(), concatenation, parsing and formatting are computed.      *)
(***************************************************************************)
DigitChars == <<"0", "1", "2", "3", "4", "5", "6", "7", "8", "9">>

Digit(n) == DigitChars[n + 1]

IsDigit(c) == \E n \in 0..9 : DigitChars[n + 1] = c

DigitVal(c) == CHOOSE n \in 0..9 : DigitChars[n + 1] = c

Pad2(n) == <<Digit((n \div 10) % 10), Digit(n % 10)>>

Pad4(n) == <<Digit((n \div 1000) % 10), Digit((n \div 100) % 10),
             Digit((n \div 10) % 10), Digit(n % 10)>>

Num2(s, i) == DigitVal(s[i]) * 10 + DigitVal(s[i + 1])

Num4(s, i) == Num2(s, i) * 100 + Num2(s, i + 2)

(***************************************************************************)
(* The calendar arithmetic of datetime.                                    *)
(***************************************************************************)
IsLeap(y) == (y % 4 = 0 /\ y % 100 # 0) \/ y % 400 = 0

DaysInMonth(y, m) ==
    IF m = 2 THEN (IF IsLeap(y) THEN 29 ELSE 28)
    ELSE IF m \in {4, 6, 9, 11} THEN 30 ELSE 31

DateTime(y, mo, d, h, mi, s) ==
    [year |-> y, month |-> mo, day |-> d, hour |-> h, minute |-> mi, second |-> s]

(***************************************************************************)
(* tasks(), POST: "If the time doesn't have seconds, we add them".         *)
(***************************************************************************)
NormalizeDueDate_AlwaysAppend(s) == s \o <<":", "0", "0">>

NormalizeDueDate(s) == IF Len(s) = 16 THEN s \o <<":", "0", "0">> ELSE s

(***************************************************************************)
(* datetime.strptime(task_due_date, "%Y-%m-%dT%H:%M:%S").  The model reads *)
(* the zero-padded form (the one a datetime-local control submits) and     *)
(* rejects every other text, as well as field values no date-time has.     *)
(***************************************************************************)
WellFormed(s) ==
    /\ Len(s) = 19
    /\ s[5] = "-" /\ s[8] = "-" /\ s[11] = "T" /\ s[14] = ":" /\ s[17] = ":"
    /\ \A i \in {1, 2, 3, 4, 6, 7, 9, 10, 12, 13, 15, 16, 18, 19} : IsDigit(s[i])

Fields(s) ==
    DateTime(Num4(s, 1), Num2(s, 6), Num2(s, 9), Num2(s, 12), Num2(s, 15), Num2(s, 18))

ValidFields(f) ==
    /\ f.year >= 1
    /\ f.month \in 1..12
    /\ f.day \in 1..DaysInMonth(f.year, f.month)
    /\ f.hour \in 0..23
    /\ f.minute \in 0..59
    /\ f.second \in 0..59

Strptime(s) ==
    IF WellFormed(s) /\ ValidFields(Fields(s))
    THEN [ok |-> TRUE, dt |-> Fields(s)]
    ELSE [ok |-> FALSE, dt |-> Absent]

(***************************************************************************)
(* pytz.timezone('Asia/Kolkata').localize(local_time): the offset from UTC *)
(* in force at a local wall-clock time, in minutes.  The zone is at +05:30 *)
(* from 1906 on, except for the two war-time periods at +06:30 (1941-10-01 *)
(* to 1942-05-15 and 1942-09-01 to 1945-10-15).  localize() is called with *)
(* its default is_dst=False, so the hour skipped when the clocks went      *)
(* forward and the hour repeated when they went back both get +05:30.      *)
(* Years before 1906 (local mean time) are outside the model.              *)
(***************************************************************************)
DateKey(dt) == dt.year * 10000 + dt.month * 100 + dt.day

MinuteOfDay(dt) == dt.hour * 60 + dt.minute

AtOrAfter(dt, key, minute) ==
    DateKey(dt) > key \/ (DateKey(dt) = key /\ MinuteOfDay(dt) >= minute)

InSummerTime(dt) ==
    \/ AtOrAfter(dt, 19411001, 60) /\ ~AtOrAfter(dt, 19420514, 1380)
    \/ AtOrAfter(dt, 19420901, 60) /\ ~AtOrAfter(dt, 19451014, 1380)

KolkataOffset(dt) ==
    CASE dt.year >= 1906 /\ InSummerTime(dt) -> 390
      [] dt.year >= 1906 /\ ~InSummerTime(dt) -> 330

(***************************************************************************)
(* local_time.astimezone(pytz.utc): the wall-clock time moved back by the  *)
(* offset, borrowing from the day, the month and the year.  A result       *)
(* before year 1 raises OverflowError.                                     *)
(***************************************************************************)
PrevDay(dt) ==
    IF dt.day > 1 THEN [dt EXCEPT !.day = dt.day - 1]
    ELSE IF dt.month > 1
         THEN [dt EXCEPT !.month = dt.month - 1,
                         !.day = DaysInMonth(dt.year, dt.month - 1)]
         ELSE [dt EXCEPT !.year = dt.year - 1, !.month = 12, !.day = 31]

AsUTC_NoBorrow(dt, off) ==
    LET m == (MinuteOfDay(dt) - off) % 1440
    IN  [ok |-> TRUE, dt |-> [dt EXCEPT !.hour = m \div 60, !.minute = m % 60]]

AsUTC(dt, off) ==
    LET m == MinuteOfDay(dt) - off
    IN  IF m >= 0
        THEN [ok |-> TRUE, dt |-> [dt EXCEPT !.hour = m \div 60, !.minute = m % 60]]
        ELSE IF dt.year = 1 /\ dt.month = 1 /\ dt.day = 1
             THEN [ok |-> FALSE, dt |-> Absent]
             ELSE [ok |-> TRUE,
                   dt |-> [PrevDay(dt) EXCEPT !.hour = (m + 1440) \div 60,
                                              !.minute = (m + 1440) % 60]]

(***************************************************************************)
(* utc_time.isoformat(): YYYY-MM-DDTHH:MM:SS+00:00.                        *)
(***************************************************************************)
Isoformat(dt) ==
    Pad4(dt.year) \o <<"-">> \o Pad2(dt.month) \o <<"-">> \o Pad2(dt.day)
    \o <<"T">> \o Pad2(dt.hour) \o <<":">> \o Pad2(dt.minute) \o <<":">>
    \o Pad2(dt.second) \o <<"+", "0", "0", ":", "0", "0">>

(***************************************************************************)
(* tasks(), POST, the first try block: the due date in UTC, or the         *)
(* exception that ends the request with "Error: ...".                      *)
(***************************************************************************)
ConvertDueDate(text) ==
    LET p == Strptime(text)
    IN  IF ~p.ok THEN [ok |-> FALSE, text |-> Absent]
        ELSE LET u == AsUTC(p.dt, KolkataOffset(p.dt))
             IN  IF ~u.ok THEN [ok |-> FALSE, text |-> Absent]
                 ELSE [ok |-> TRUE, text |-> Isoformat(u.dt)]

(***************************************************************************)
(* The session and the credential.                                         *)
(***************************************************************************)
\* The session is a dict: a function from the keys it holds to their values.
EmptySession == [k \in {} |-> Absent]

\* session[key] = value
Put(sess, key, value) == (key :> value) @@ sess

\* session.pop(key, None)
Pop(sess, key) == [k \in DOMAIN sess \ {key} |-> sess[k]]

\* The tokens google.authorize_access_token() can return at time t.
NewTokens(t) ==
    [access_token : AccessTokens, refresh_token : RefreshTokens,
     expires_at : (t + 1)..(t + MaxTTL)]

\* Whether the provider still honours the session's access token at time t.
TokenExpired(sess, t) == sess.user_token.expires_at <= t

\* Credentials(token=..., refresh_token=..., token_uri=..., client_id=...,
\* client_secret=...): the expiry argument is not passed, so it is None.
Credentials(token) ==
    [token |-> token.access_token,
     refresh_token |-> token.refresh_token,
     expiry |-> Absent]

\* credentials.expired: a credential without an expiry is never expired.
Expired(cred, t) == cred.expiry # Absent /\ t >= cred.expiry

\* build_calendar_service(): None without 'user_token'; otherwise a client
\* over the session's token, refreshed first when the credential says it
\* is expired and holds a refresh token.
BuildCalendarService(sess, t) ==
    IF "user_token" \notin DOMAIN sess
    THEN [service |-> FALSE, access_token |-> Absent, refreshed |-> FALSE]
    ELSE LET cred == Credentials(sess.user_token)
             refresh == Expired(cred, t) /\ cred.refresh_token # Absent
         IN  [service |-> TRUE,
              access_token |-> IF refresh THEN "refreshed" ELSE cred.token,
              refreshed |-> refresh]

\* The session the next request sees after a handler raised: Flask saves the
\* session with the 500 response, unless exceptions propagate (debug=True),
\* in which case no response of the app, and no session cookie, is sent.
SessionAfterError(old, new) == IF debug THEN old ELSE new

(***************************************************************************)
(* Requests, responses, remote calls, log lines.                           *)
(***************************************************************************)
Request(route, method, form, task_id) ==
    [route |-> route, method |-> method, form |-> form, task_id |-> task_id]

\* request.form: a dict too.  A GET carries no form.
NoForm == [k \in {} |-> Absent]

\* The forms a POST /tasks can carry, with a due date among `dates` or none.
Forms(dates) ==
    {[title |-> title, due_date |-> due] : title \in Titles, due \in dates}
    \cup {[title |-> title] : title \in Titles}

\* kind: "html", "redirect", "text" (a plain-text body), "page" (the rendered
\* task page) or "unhandled" (an exception left the handler).
\* failure: the remote call that failed while the request was served.
Response(kind, target, tasks, message, failure) ==
    [kind |-> kind, target |-> target, tasks |-> tasks, message |-> message,
     failure |-> failure]

Redirect(location) == Response("redirect", location, <<>>, Absent, Absent)

Unhandled(failure) == Response("unhandled", Absent, <<>>, Absent, failure)

\* A remote call.  expired: the access token it carried was expired.
\* result: the items it returned (of a list call that succeeded).
Call(op, svc, sess, t, arg, ok, result) ==
    [op |-> op, access_token |-> svc.access_token,
     expired |-> TokenExpired(sess, t) /\ ~svc.refreshed,
     refreshed |-> svc.refreshed, arg |-> arg, ok |-> ok, result |-> result]

OAuthCall(op, ok) ==
    [op |-> op, access_token |-> Absent, expired |-> FALSE, refreshed |-> FALSE,
     arg |-> Absent, ok |-> ok, result |-> <<>>]

CalendarOps == {"list", "insert", "delete"}

\* A line of logging.debug: the message and the value it carries.
LogLine(msg, value) == [msg |-> msg, value |-> value]

(***************************************************************************)
(* The remote calendar.                                                    *)
(***************************************************************************)
MaxResults == 10

EventIds == 1..MaxEvents

UsedIds(cal) == {cal[i].id : i \in 1..Len(cal)}

FreshId(cal) == CHOOSE i \in EventIds : i \notin UsedIds(cal) /\ \A j \in EventIds : j < i => j \in UsedIds(cal)

Without(cal, id) == SelectSeq(cal, LAMBDA e : e.id # id)

\* events().list(calendarId='primary', timeMin=now, maxResults=10, ...)
ListResult(cal) ==
    SubSeq(cal, 1, IF Len(cal) > MaxResults THEN MaxResults ELSE Len(cal))

\* The rows tasks() builds from the items of the list call.
TaskRows_DropFirst(items) ==
    [i \in 1..(Len(items) - 1) |->
        [summary |-> IF items[i + 1].summary = Absent THEN "No Title"
                     ELSE items[i + 1].summary,
         id |-> items[i + 1].id]]

TaskRows(items) ==
    [i \in 1..Len(items) |->
        [summary |-> IF items[i].summary = Absent THEN "No Title" ELSE items[i].summary,
         id |-> items[i].id]]

\* The event tasks() submits.
Event_EndNaive(title, when) ==
    [summary |-> title,
     start |-> [dateTime |-> when, timeZone |-> "UTC"],
     end |-> [dateTime |-> SubSeq(when, 1, 19), timeZone |-> "UTC"]]

Event(title, when) ==
    [summary |-> title,
     start |-> [dateTime |-> when, timeZone |-> "UTC"],
     end |-> [dateTime |-> when, timeZone |-> "UTC"]]

(***************************************************************************)
(* The due dates the form submits.                                         *)
(***************************************************************************)
Local16(y, mo, d, h, mi) ==
    Pad4(y) \o <<"-">> \o Pad2(mo) \o <<"-">> \o Pad2(d) \o <<"T">>
    \o Pad2(h) \o <<":">> \o Pad2(mi)

Local19(y, mo, d, h, mi, s) == Local16(y, mo, d, h, mi) \o <<":">> \o Pad2(s)

\* The due dates of the requests of Spec: a date alone, and the two forms a
\* datetime-local control submits (without and with seconds).
DueDates ==
    { SubSeq(Local16(2024, 3, 1, 2, 15), 1, 10),
      Local16(2024, 3, 1, 2, 15),
      Local19(2024, 12, 31, 23, 59, 45) }

\* The due dates of the requests of SpecConv.
ConvYears == {1943, 1945, 2023, 2024}
ConvMonths == {1, 3, 10, 12}
ConvDays == {1, 14, 15}
ConvHours == {0, 5, 23}
ConvMinutes == {0, 29, 30}
ConvSeconds == {0, 45}

ConvDueDates ==
    { Local16(y, mo, d, h, mi) :
        y \in ConvYears, mo \in ConvMonths, d \in ConvDays, h \in ConvHours,
        mi \in ConvMinutes }
    \cup
    { Local19(y, mo, d, h, mi, s) :
        y \in ConvYears, mo \in ConvMonths, d \in ConvDays, h \in ConvHours,
        mi \in ConvMinutes, s \in ConvSeconds }

(***************************************************************************)
(* The initial state: a new browser session against a started server.      *)
(***************************************************************************)
Init ==
    /\ session = EmptySession
    /\ debug \in BOOLEAN
    /\ now = 0
    /\ calendar \in {<<>>, <<[id |-> 1, summary |-> Absent]>>}
    /\ req = Request("none", "none", NoForm, Absent)
    /\ resp = Response("none", Absent, <<>>, Absent, Absent)
    /\ calls = <<>>
    /\ log = <<>>
    /\ loggedOut = FALSE

\* Time passes between requests.
Tick ==
    /\ now < MaxNow
    /\ now' = now + 1
    /\ UNCHANGED <<session, debug, calendar, req, resp, calls, log, loggedOut>>

(***************************************************************************)
(* GET /                                                                   *)
(***************************************************************************)
Home ==
    /\ req' = Request("/", "GET", NoForm, Absent)
    /\ resp' = IF "user" \in DOMAIN session
               THEN Response("html", "greeting", <<>>, Absent, Absent)
               ELSE Response("html", "login_link", <<>>, Absent, Absent)
    /\ calls' = <<>>
    /\ log' = <<>>
    /\ UNCHANGED <<session, debug, now, calendar, loggedOut>>

(***************************************************************************)
(* GET /login: a redirect to the provider.  authorize_redirect() keeps its *)
(* state under a key of its own; 'user_token' and 'user' are not touched.  *)
(***************************************************************************)
Login ==
    /\ req' = Request("/login", "GET", NoForm, Absent)
    /\ resp' = Redirect("provider")
    /\ calls' = <<>>
    /\ log' = <<>>
    /\ UNCHANGED <<session, debug, now, calendar, loggedOut>>

(***************************************************************************)
(* GET /callback: the token exchange, session['user_token'] = token, the   *)
(* profile fetch, session['user'] = user_info.  Neither remote call is in  *)
(* a try block.                                                            *)
(***************************************************************************)
Authorize ==
    /\ req' = Request("/callback", "GET", NoForm, Absent)
    /\ log' = <<>>
    /\ \/ \* google.authorize_access_token() raises
          /\ session' = SessionAfterError(session, session)
          /\ resp' = Unhandled("token_exchange")
          /\ calls' = <<OAuthCall("token_exchange", FALSE)>>
          /\ loggedOut' = loggedOut
       \/ \E token \in NewTokens(now) :
          \/ \* google.get(userinfo_endpoint) raises, after line 78
             /\ session' = SessionAfterError(session,
                               Put(session, "user_token", token))
             /\ resp' = Unhandled("profile_fetch")
             /\ calls' = <<OAuthCall("token_exchange", TRUE),
                           OAuthCall("profile_fetch", FALSE)>>
             /\ loggedOut' = loggedOut
          \/ \E user \in Profiles :
             /\ session' = Put(Put(session, "user_token", token), "user", user)
             /\ resp' = Redirect("/")
             /\ calls' = <<OAuthCall("token_exchange", TRUE),
                           OAuthCall("profile_fetch", TRUE)>>
             /\ loggedOut' = FALSE
    /\ UNCHANGED <<debug, now, calendar>>

(***************************************************************************)
(* GET /logout                                                             *)
(***************************************************************************)
Logout ==
    /\ req' = Request("/logout", "GET", NoForm, Absent)
    /\ session' = Pop(Pop(session, "user"), "user_token")
    /\ resp' = Redirect("/")
    /\ calls' = <<>>
    /\ log' = <<>>
    /\ loggedOut' = TRUE
    /\ UNCHANGED <<debug, now, calendar>>

(***************************************************************************)
(* GET /tasks: the list call in a try block; the page shows its items.     *)
(***************************************************************************)
TasksGet_NoGuard ==
    LET svc == BuildCalendarService(session, now)
    IN  /\ req' = Request("/tasks", "GET", NoForm, Absent)
        /\ log' = <<>>
        /\ IF ~svc.service
           THEN /\ resp' = Response("text", Absent, <<>>,
                                     "Error fetching tasks", Absent)
                /\ calls' = <<>>
           ELSE \E ok \in BOOLEAN :
                /\ calls' = <<Call("list", svc, session, now, Absent, ok,
                                    IF ok THEN ListResult(calendar) ELSE <<>>)>>
                /\ resp' = IF ok
                           THEN Response("page", Absent,
                                         TaskRows(ListResult(calendar)), Absent, Absent)
                           ELSE Response("text", Absent, <<>>,
                                         "Error fetching tasks", "list")
        /\ UNCHANGED <<session, debug, now, calendar, loggedOut>>

TasksGet ==
    LET svc == BuildCalendarService(session, now)
    IN  /\ req' = Request("/tasks", "GET", NoForm, Absent)
        /\ log' = <<>>
        /\ IF ~svc.service
           THEN /\ resp' = Redirect("/login")
                /\ calls' = <<>>
           ELSE \E ok \in BOOLEAN :
                /\ calls' = <<Call("list", svc, session, now, Absent, ok,
                                    IF ok THEN ListResult(calendar) ELSE <<>>)>>
                /\ resp' = IF ok
                           THEN Response("page", Absent,
                                         TaskRows(ListResult(calendar)), Absent, Absent)
                           ELSE Response("text", Absent, <<>>,
                                         "Error fetching tasks", "list")
        /\ UNCHANGED <<session, debug, now, calendar, loggedOut>>

(***************************************************************************)
(* POST /tasks with a form: normalise the due date, log it, convert it to  *)
(* UTC (returning "Error: ..." when that raises), insert the event in a    *)
(* try block, render the page with no tasks and a message.  A form without *)
(* due_date makes len() raise, outside any try block.                      *)
(***************************************************************************)
TasksPost(form) ==
    LET svc == BuildCalendarService(session, now)
    IN  /\ req' = Request("/tasks", "POST", form, Absent)
        /\ IF ~svc.service
           THEN /\ resp' = Redirect("/login")
                /\ calls' = <<>>
                /\ log' = <<>>
                /\ calendar' = calendar
                /\ session' = session
           ELSE IF "due_date" \notin DOMAIN form
           THEN /\ resp' = Unhandled(Absent)
                /\ calls' = <<>>
                /\ log' = <<>>
                /\ calendar' = calendar
                /\ session' = SessionAfterError(session, session)
           ELSE LET text == NormalizeDueDate(form.due_date)
                    utc == ConvertDueDate(text)
                IN  IF ~utc.ok
                    THEN /\ resp' = Response("text", Absent, <<>>, "Error", Absent)
                         /\ calls' = <<>>
                         /\ log' = <<LogLine("Received task due date", text)>>
                         /\ calendar' = calendar
                         /\ session' = session
                    ELSE \E ok \in BOOLEAN :
                         /\ ok => Len(calendar) < MaxEvents
                         /\ calls' = <<Call("insert", svc, session, now,
                                            Event(form.title, utc.text), ok, <<>>)>>
                         /\ log' = <<LogLine("Received task due date", text),
                                    LogLine("Converted task due date to UTC", utc.text)>>
                         /\ calendar' =
                               IF ok
                               THEN Append(calendar, [id |-> FreshId(calendar),
                                                      summary |-> form.title])
                               ELSE calendar
                         /\ resp' =
                               IF ok
                               THEN Response("page", Absent, <<>>,
                                             "Task added successfully!", Absent)
                               ELSE Response("page", Absent, <<>>,
                                             "Error adding task", "insert")
                         /\ session' = session
        /\ UNCHANGED <<debug, now, loggedOut>>

(***************************************************************************)
(* GET /delete/<task_id>: the delete call in a try block; the outcome goes *)
(* into the query string of a redirect to /tasks, which tasks() never      *)
(* reads.                                                                  *)
(***************************************************************************)
DeleteTask_DropsToken ==
    \E task_id \in EventIds :
    LET svc == BuildCalendarService(session, now)
    IN  /\ req' = Request("/delete", "GET", NoForm, task_id)
        /\ log' = <<>>
        /\ IF ~svc.service
           THEN /\ resp' = Redirect("/login")
                /\ calls' = <<>>
                /\ calendar' = calendar
                /\ session' = session
           ELSE \E ok \in BOOLEAN :
                /\ ok => task_id \in UsedIds(calendar)
                /\ calls' = <<Call("delete", svc, session, now, task_id, ok, <<>>)>>
                /\ calendar' = IF ok THEN Without(calendar, task_id) ELSE calendar
                /\ resp' = IF ok
                           THEN Redirect("/tasks?message=Task deleted successfully!")
                           ELSE Response("redirect", "/tasks?message=Error deleting task",
                                         <<>>, Absent, "delete")
                /\ session' = IF ok THEN session
                              ELSE Pop(session, "user_token")
        /\ UNCHANGED <<debug, now, loggedOut>>

DeleteTask ==
    \E task_id \in EventIds :
    LET svc == BuildCalendarService(session, now)
    IN  /\ req' = Request("/delete", "GET", NoForm, task_id)
        /\ log' = <<>>
        /\ IF ~svc.service
           THEN /\ resp' = Redirect("/login")
                /\ calls' = <<>>
                /\ calendar' = calendar
           ELSE \E ok \in BOOLEAN :
                /\ ok => task_id \in UsedIds(calendar)
                /\ calls' = <<Call("delete", svc, session, now, task_id, ok, <<>>)>>
                /\ calendar' = IF ok THEN Without(calendar, task_id) ELSE calendar
                /\ resp' = IF ok
                           THEN Redirect("/tasks?message=Task deleted successfully!")
                           ELSE Response("redirect", "/tasks?message=Error deleting task",
                                         <<>>, Absent, "delete")
        /\ UNCHANGED <<session, debug, now, loggedOut>>

(***************************************************************************)
(* The application: any request, in any order, at any time.                *)
(***************************************************************************)
Next ==
    \/ Tick
    \/ Home
    \/ Login
    \/ Authorize
    \/ Logout
    \/ TasksGet
    \/ \E form \in Forms(DueDates) : TasksPost(form)
    \/ DeleteTask

Spec == Init /\ [][Next]_vars

(***************************************************************************)
(* The due-date conversion on its own: a logged-in session whose POST      *)
(* /tasks, with a due date of ConvDueDates, has arrived and is served.     *)
(***************************************************************************)
InitConv ==
    /\ session \in {Put(Put(EmptySession, "user_token", token), "user", user) :
                        token \in NewTokens(0), user \in Profiles}
    /\ debug = FALSE
    /\ now = 0
    /\ calendar = <<>>
    /\ req \in {Request("/tasks", "POST", form, Absent) : form \in Forms(ConvDueDates)}
    /\ resp = Response("none", Absent, <<>>, Absent, Absent)
    /\ calls = <<>>
    /\ log = <<>>
    /\ loggedOut = FALSE

NextConv == resp.kind = "none" /\ TasksPost(req.form)

SpecConv == InitConv /\ [][NextConv]_vars

(***************************************************************************)
(* What the properties below read off a state.                             *)
(***************************************************************************)
TaskRoutes == {"/tasks", "/delete"}

HasToken == "user_token" \in DOMAIN session

HasUser == "user" \in DOMAIN session

CalendarCalls == SelectSeq(calls, LAMBDA c : c.op \in CalendarOps)

CallsOf(op) == SelectSeq(calls, LAMBDA c : c.op = op)

\* The last request was a POST /tasks of a session holding a token, and has
\* been served.
ServedPost ==
    /\ req.route = "/tasks" /\ req.method = "POST"
    /\ resp.kind \notin {"none", "redirect"}

\* ... and its form carried a due date.
ServedPostWithDueDate == ServedPost /\ "due_date" \in DOMAIN req.form

\* ... and the due date was converted (the handler logged the UTC form).
Converted == ServedPostWithDueDate /\ Len(log) = 2

\* The date-time the handler parsed, and the one it submitted.
LocalTime == Fields(log[1].value)

Submitted == calls[1].arg.start.dateTime

SubmittedTime == Fields(SubSeq(Submitted, 1, 19))

\* The number of the day of a date, counting every day of the calendar.
DayNumber(dt) ==
    LET y == IF dt.month <= 2 THEN dt.year - 1 ELSE dt.year
        era == y \div 400
        yoe == y - era * 400
        mp == IF dt.month > 2 THEN dt.month - 3 ELSE dt.month + 9
        doy == (153 * mp + 2) \div 5 + dt.day - 1
    IN  era * 146097 + yoe * 365 + yoe \div 4 - yoe \div 100 + doy

\* By how many minutes date-time a is ahead of date-time b (at most days apart).
MinutesAhead(a, b) ==
    (DayNumber(a) - DayNumber(b)) * 1440 + MinuteOfDay(a) - MinuteOfDay(b)

\* The submitted timestamp is the parsed local date-time minus `off` minutes,
\* written as UTC.
SubmittedIsLocalMinus(off) ==
    /\ Len(Submitted) = 25
    /\ SubSeq(Submitted, 20, 25) = <<"+", "0", "0", ":", "0", "0">>
    /\ WellFormed(SubSeq(Submitted, 1, 19))
    /\ ValidFields(SubmittedTime)
    /\ MinutesAhead(LocalTime, SubmittedTime) = off
    /\ SubmittedTime.second = LocalTime.second

(***************************************************************************)
(* C1.  A request to a task route (GET /tasks, POST /tasks, GET            *)
(* /delete/<task_id>) made while the session holds no 'user_token' is      *)
(* answered with a redirect to /login, issues no remote call, leaves the   *)
(* calendar alone and produces no error response.                          *)
(***************************************************************************)
C1_UnauthenticatedRedirectsToLogin ==
    [][ (req'.route \in TaskRoutes /\ ~HasToken)
            => /\ resp' = Redirect("/login")
               /\ calls' = <<>>
               /\ calendar' = calendar ]_vars

\* An unauthenticated POST /tasks was redirected while the calendar held an event.
C1_Witness ==
    /\ req.route = "/tasks" /\ req.method = "POST"
    /\ "due_date" \in DOMAIN req.form
    /\ ~HasToken
    /\ resp = Redirect("/login")
    /\ calendar # <<>>

(***************************************************************************)
(* C2.  After /logout, and until a later /callback succeeds, the session   *)
(* holds neither 'user_token' nor 'user' (so every request is treated as   *)
(* unauthenticated).                                                       *)
(***************************************************************************)
C2_LoggedOutUntilCallbackSucceeds == loggedOut => (~HasToken /\ ~HasUser)

(***************************************************************************)
(* C3.  No remote calendar call (list, insert or delete) carries an        *)
(* expired access token: the token is non-expired or was refreshed first.  *)
(***************************************************************************)
C3_NoCallWithExpiredToken ==
    \A i \in 1..Len(calls) : calls[i].op \in CalendarOps => ~calls[i].expired

(***************************************************************************)
(* C4, as stated.  The UTC timestamp POST /tasks submits is the local      *)
(* date-time minus 5 hours 30 minutes, for every valid input date-time.    *)
(***************************************************************************)
C4_AlwaysFiveThirty == Converted => SubmittedIsLocalMinus(330)

(***************************************************************************)
(* C4, amended.  The UTC timestamp POST /tasks submits is the local        *)
(* date-time minus the offset of Asia/Kolkata in force at that local time: *)
(* 5 hours 30 minutes for every date-time from 1945-10-15 on, 6 hours 30   *)
(* minutes from 1942-09-02 to 1945-10-13, also where the subtraction       *)
(* crosses a day, month or year boundary.                                  *)
(***************************************************************************)
C4_ZoneOffsetInForce ==
    Converted =>
        /\ DateKey(LocalTime) >= 19451015 => SubmittedIsLocalMinus(330)
        /\ DateKey(LocalTime) \in 19420902..19451013 => SubmittedIsLocalMinus(390)

\* 2024-01-01T00:00 local was submitted as 2023-12-31T18:30:00+00:00.
C4_Witness ==
    /\ Converted
    /\ LocalTime = DateTime(2024, 1, 1, 0, 0, 0)
    /\ SubmittedTime = DateTime(2023, 12, 31, 18, 30, 0)

(***************************************************************************)
(* C5.  In POST /tasks a due date without seconds (16 characters) reaches  *)
(* the parser with ":00" appended, and so is converted with 0 seconds; a   *)
(* due date that carries seconds reaches the parser unchanged, and keeps   *)
(* its seconds.                                                            *)
(***************************************************************************)
C5_SecondsAppendedWhenMissing ==
    ServedPostWithDueDate =>
        LET due == req.form.due_date
        IN  /\ Len(log) >= 1
            /\ Len(due) = 16 => log[1].value = due \o <<":", "0", "0">>
            /\ Len(due) # 16 => log[1].value = due
            /\ Len(due) \in {16, 19} =>
                  /\ Converted
                  /\ SubSeq(Submitted, 18, 19) =
                        IF Len(due) = 16 THEN <<"0", "0">> ELSE SubSeq(due, 18, 19)

\* A 16-character due date was converted.
C5_Witness ==
    /\ Converted
    /\ Len(req.form.due_date) = 16
    /\ Len(log[1].value) = 19

(***************************************************************************)
(* C6.  Every failure of a remote call is shown to the user: as a          *)
(* plain-text error string, or in the message slot of the rendered task    *)
(* page.                                                                   *)
(***************************************************************************)
C6_FailuresAreShown ==
    resp.failure # Absent =>
        \/ resp.kind = "text" /\ resp.message # Absent
        \/ resp.kind = "page" /\ resp.message # Absent

(***************************************************************************)
(* C7, as stated.  Every response that renders the task page, for GET and  *)
(* for POST alike, follows one list call of the same request and shows     *)
(* exactly the items that call returned.                                   *)
(***************************************************************************)
ShowsItemsOfListCall ==
    /\ Len(CallsOf("list")) = 1
    /\ LET items == CallsOf("list")[1].result
       IN  /\ Len(resp.tasks) = Len(items)
           /\ \A i \in 1..Len(items) :
                /\ resp.tasks[i].id = items[i].id
                /\ resp.tasks[i].summary =
                      IF items[i].summary = Absent THEN "No Title"
                      ELSE items[i].summary

C7_EveryPageRefetches == resp.kind = "page" => ShowsItemsOfListCall

(***************************************************************************)
(* C7, amended.  Every response to GET /tasks that renders the task page   *)
(* follows one list call of the same request and shows exactly the items   *)
(* that call returned; the page POST /tasks renders follows no list call   *)
(* and shows no tasks.                                                     *)
(***************************************************************************)
C7_GetPageRefetches ==
    resp.kind = "page" =>
        /\ req.route = "/tasks"
        /\ req.method = "GET" => ShowsItemsOfListCall
        /\ req.method = "POST" => CallsOf("list") = <<>> /\ resp.tasks = <<>>

\* GET /tasks rendered a page with a task on it.
C7_Witness ==
    /\ resp.kind = "page"
    /\ req.method = "GET"
    /\ Len(resp.tasks) >= 1
    /\ calendar # <<>>

(***************************************************************************)
(* C8.  An authenticated POST /tasks whose due date parses issues exactly  *)
(* one remote insert, also when the insert fails, and the event submitted  *)
(* is a point event: start.dateTime = end.dateTime, both with timeZone     *)
(* 'UTC'.  A POST whose due date fails to parse issues no insert.          *)
(***************************************************************************)
C8_OneInsertOfAPointEvent ==
    ServedPostWithDueDate =>
        IF Strptime(NormalizeDueDate(req.form.due_date)).ok
        THEN /\ Len(calls) = 1
             /\ calls[1].op = "insert"
             /\ calls[1].arg.start.dateTime = calls[1].arg.end.dateTime
             /\ calls[1].arg.start.timeZone = "UTC"
             /\ calls[1].arg.end.timeZone = "UTC"
        ELSE calls = <<>>

\* The one insert of a POST failed, and no second one followed.
C8_Witness ==
    /\ ServedPostWithDueDate
    /\ resp.failure = "insert"
    /\ Len(CallsOf("insert")) = 1
    /\ ~calls[1].ok

(***************************************************************************)
(* C9.  'user' is in the session if and only if 'user_token' is.           *)
(***************************************************************************)
C9_UserIffToken == HasUser <=> HasToken

(***************************************************************************)
(* C10.  The routes /, /login, /tasks and /delete/<task_id> leave the      *)
(* session as it is, whatever the outcome of their remote call; only       *)
(* /callback and /logout change it.                                        *)
(***************************************************************************)
C10_OnlyCallbackAndLogoutChangeSession ==
    [][ session' # session => req'.route \in {"/callback", "/logout"} ]_vars

\* A delete whose remote call failed, with an expired token, kept the session.
C10_Witness ==
    /\ req.route = "/delete"
    /\ resp.failure = "delete"
    /\ HasToken /\ HasUser
    /\ TokenExpired(session, now)

====
